---------------------------- MODULE Spec2Model ----------------------------
(***************************************************************************)
(* Model of src/metrics.py: the business-metric instruments of the HR      *)
(* backend and the helper functions that record into them.                 *)
(*                                                                         *)
(* The instruments are prometheus_client objects.  A labelled instrument   *)
(* is a function from the label values of the children created so far     *)
(* (by .labels(...)) to the child's value.  Counter.inc, Gauge.inc/dec/set *)
(* and Histogram.observe each run under the child's lock, so each is one   *)
(* atomic step; a helper that makes several such calls is several steps,   *)
(* and other threads may run between them.  Each thread has a position pc  *)
(* (named after the source line it is about to execute) and the arguments  *)
(* of the call it is in (frame).                                           *)
(*                                                                         *)
(* Instruments that no helper of metrics.py updates (resumes_total,        *)
(* jd_total, file_storage_bytes, ...) keep their initial value for ever    *)
(* and are left out; a histogram's running sum is left out as well.        *)
(***************************************************************************)
EXTENDS Integers, Sequences, FiniteSets, Bags, TLC

\* -------------------------------------------------------------- bounds
\* Calls begun in the focused specifications.
MaxCalls == 3
\* Calls begun in the specification of the whole module.
MaxCallsAll == 2
\* Calls begun in the specifications whose callers are serialized.
MaxSeqCalls == 3

\* -------------------------------------------------------------- inputs
Threads == {"t1", "t2"}

FileTypes == {"pdf", "docx"}
Sources == {"manual", "auto"}
Endpoints == {"compare-batch", "extract-resume"}
\* seconds: on the first boundary, above the last boundary
Durations == {1, 400}
\* on the first boundary, inside, on the last boundary, above it
Scores == {10, 55, 100, 101}
FitCounts == {0, 3}
WorkflowStatuses == {"success", "failed", "partial"}
WorkflowTypes == {"manual", "scheduled"}

\* ------------------------------------------------- declared bucket lists
AIAgentLatencyBuckets == <<1, 5, 10, 30, 60, 120, 300>>
MatchScoresBuckets == <<10, 20, 30, 40, 50, 60, 70, 80, 90, 100>>

\* ------------------------------------------------ instrument primitives
\* A labelled metric with no child yet.
NoChildren == <<>>

\* metric.labels(key): the child is created, at 0, on first use.
Labels(metric, key) ==
    IF key \in DOMAIN metric THEN metric ELSE (key :> 0) @@ metric

\* What a scrape shows for a series: nothing counts as 0.
Value(metric, key) == IF key \in DOMAIN metric THEN metric[key] ELSE 0

\* Faulty variant of Inc: the series is lowered.
IncByMinusOne(metric, key) ==
    [Labels(metric, key) EXCEPT ![key] = @ - 1]

\* metric.labels(key).inc()
Inc(metric, key) ==
    [Labels(metric, key) EXCEPT ![key] = @ + 1]

\* Faulty variant of Set: v is added to the series (a delta).
SetAsDelta(metric, key, v) ==
    [Labels(metric, key) EXCEPT ![key] = @ + v]

\* gauge.labels(key).set(v)
Set(metric, key, v) ==
    [Labels(metric, key) EXCEPT ![key] = v]

\* Histogram(buckets=bounds): one count per declared bound and one more for
\* the +Inf bucket the library appends.
NewHistogram(bounds) ==
    [upper_bounds |-> bounds,
     buckets |-> [i \in 1..(Len(bounds) + 1) |-> 0]]

\* Faulty variant of BucketIndex: a histogram without the +Inf bucket.
BucketIndexNoOverflow(upper_bounds, amount) ==
    IF \E i \in 1..Len(upper_bounds) : amount <= upper_bounds[i]
    THEN CHOOSE i \in 1..Len(upper_bounds) :
            /\ amount <= upper_bounds[i]
            /\ \A j \in 1..(i - 1) : ~(amount <= upper_bounds[j])
    ELSE 0

\* The bucket observe() increments: the first whose bound is >= amount,
\* which is the +Inf bucket when no declared bound is.
BucketIndex(upper_bounds, amount) ==
    IF \E i \in 1..Len(upper_bounds) : amount <= upper_bounds[i]
    THEN CHOOSE i \in 1..Len(upper_bounds) :
            /\ amount <= upper_bounds[i]
            /\ \A j \in 1..(i - 1) : ~(amount <= upper_bounds[j])
    ELSE Len(upper_bounds) + 1

\* histogram.observe(amount); an index outside the buckets records nothing.
Observe(h, amount) ==
    LET i == BucketIndex(h.upper_bounds, amount)
    IN  IF i \in DOMAIN h.buckets
        THEN [h EXCEPT !.buckets[i] = @ + 1]
        ELSE h

\* histogram.labels(key): the child is created with the declared buckets.
HistogramLabels(metric, key, bounds) ==
    IF key \in DOMAIN metric THEN metric
    ELSE (key :> NewHistogram(bounds)) @@ metric

\* The number of observations a histogram holds (its _count sample).
RECURSIVE SumSeq(_)
SumSeq(s) == IF s = <<>> THEN 0 ELSE Head(s) + SumSeq(Tail(s))

Count(h) == SumSeq(h.buckets)

\* The sum of a labelled metric over all its series.
RECURSIVE SumOver(_, _)
SumOver(metric, keys) ==
    IF keys = {} THEN 0
    ELSE LET k == CHOOSE k \in keys : TRUE
         IN  metric[k] + SumOver(metric, keys \ {k})

Total(metric) == SumOver(metric, DOMAIN metric)

\* Faulty variant of StatusOf: a third status value.
StatusOfTypo(success) == IF success THEN "success" ELSE "failure"

\* status = 'success' if success else 'failed'
StatusOf(success) == IF success THEN "success" ELSE "failed"

\* ---------------------------------------------------------------- state
VARIABLES
    resume_uploads_total,       \* <<status, file_type>> -> count
    matching_requests_total,    \* <<status, source>> -> count
    ai_agent_calls_total,       \* <<endpoint, status>> -> count
    ai_agent_latency,           \* endpoint -> histogram
    match_scores,               \* histogram
    candidates_by_fit,          \* category -> value
    user_logins_total,          \* status -> count
    workflows_started_total,    \* type -> count
    workflows_completed_total,  \* status -> count
    workflow_in_progress,       \* value
    pc,                         \* thread -> the line it is about to execute
    frame,                      \* thread -> the call it is in, with its arguments
    returned,                   \* the bag of the calls that have returned
    crashed,                    \* the process was killed: nothing runs any more
    pre                         \* serialized callers: the call last begun and
                                \* the instruments as it began

instruments ==
    <<resume_uploads_total, matching_requests_total, ai_agent_calls_total,
      ai_agent_latency, match_scores, candidates_by_fit, user_logins_total,
      workflows_started_total, workflows_completed_total, workflow_in_progress>>

threads == <<pc, frame, returned>>

vars == <<instruments, threads, crashed, pre>>

\* The instruments as one value.
Snapshot ==
    [resume_uploads_total |-> resume_uploads_total,
     matching_requests_total |-> matching_requests_total,
     ai_agent_calls_total |-> ai_agent_calls_total,
     ai_agent_latency |-> ai_agent_latency,
     match_scores |-> match_scores,
     candidates_by_fit |-> candidates_by_fit,
     user_logins_total |-> user_logins_total,
     workflows_started_total |-> workflows_started_total,
     workflows_completed_total |-> workflows_completed_total,
     workflow_in_progress |-> workflow_in_progress]

NoCall == [op |-> "none"]

\* The module has been imported: every instrument is declared, no labelled
\* instrument has a child, no thread is inside a helper.
Init ==
    /\ resume_uploads_total = NoChildren
    /\ matching_requests_total = NoChildren
    /\ ai_agent_calls_total = NoChildren
    /\ ai_agent_latency = NoChildren
    /\ match_scores = NewHistogram(MatchScoresBuckets)
    /\ candidates_by_fit = NoChildren
    /\ user_logins_total = NoChildren
    /\ workflows_started_total = NoChildren
    /\ workflows_completed_total = NoChildren
    /\ workflow_in_progress = 0
    /\ pc = [t \in Threads |-> "idle"]
    /\ frame = [t \in Threads |-> NoCall]
    /\ returned = EmptyBag
    /\ crashed = FALSE
    /\ pre = [call |-> NoCall, instruments |-> Snapshot]

\* ------------------------------------------------------- control helpers
\* Thread t enters a helper with the arguments of `call`, at line `entry`.
Enter(t, call, entry) ==
    /\ pc[t] = "idle"
    /\ pc' = [pc EXCEPT ![t] = entry]
    /\ frame' = [frame EXCEPT ![t] = call]
    /\ UNCHANGED returned

\* Thread t moves on to line `line` of the helper it is in.
Goto(t, line) ==
    /\ pc' = [pc EXCEPT ![t] = line]
    /\ UNCHANGED <<frame, returned>>

\* Thread t's helper returns.
Return(t) ==
    /\ pc' = [pc EXCEPT ![t] = "idle"]
    /\ frame' = [frame EXCEPT ![t] = NoCall]
    /\ returned' = returned (+) SetToBag({frame[t]})

\* --------------------------------------------------- track_resume_upload
others_resume_upload ==
    <<matching_requests_total, ai_agent_calls_total, ai_agent_latency,
      match_scores, candidates_by_fit, user_logins_total,
      workflows_started_total, workflows_completed_total, workflow_in_progress>>

Call_track_resume_upload(t) ==
    /\ \E success \in BOOLEAN, file_type \in FileTypes :
          Enter(t, [op |-> "track_resume_upload", success |-> success,
                    file_type |-> file_type], "L185")
    /\ UNCHANGED instruments

track_resume_upload_L185(t) ==
    /\ pc[t] = "L185"
    /\ resume_uploads_total' =
          Inc(resume_uploads_total,
              <<StatusOf(frame[t].success), frame[t].file_type>>)
    /\ Return(t)
    /\ UNCHANGED others_resume_upload

\* ------------------------------------------------ track_matching_request
others_matching_request ==
    <<resume_uploads_total, ai_agent_calls_total, ai_agent_latency,
      match_scores, candidates_by_fit, user_logins_total,
      workflows_started_total, workflows_completed_total, workflow_in_progress>>

Call_track_matching_request(t) ==
    /\ \E success \in BOOLEAN, source \in Sources :
          Enter(t, [op |-> "track_matching_request", success |-> success,
                    source |-> source], "L190")
    /\ UNCHANGED instruments

track_matching_request_L190(t) ==
    /\ pc[t] = "L190"
    /\ matching_requests_total' =
          Inc(matching_requests_total,
              <<StatusOf(frame[t].success), frame[t].source>>)
    /\ Return(t)
    /\ UNCHANGED others_matching_request

\* --------------------------------------------------- track_ai_agent_call
others_ai_agent_calls ==
    <<resume_uploads_total, matching_requests_total, ai_agent_latency,
      match_scores, candidates_by_fit, user_logins_total,
      workflows_started_total, workflows_completed_total, workflow_in_progress>>

others_ai_agent_latency ==
    <<resume_uploads_total, matching_requests_total, ai_agent_calls_total,
      match_scores, candidates_by_fit, user_logins_total,
      workflows_started_total, workflows_completed_total, workflow_in_progress>>

Call_track_ai_agent_call(t) ==
    /\ \E endpoint \in Endpoints, success \in BOOLEAN, duration \in Durations :
          Enter(t, [op |-> "track_ai_agent_call", endpoint |-> endpoint,
                    success |-> success, duration |-> duration], "L195")
    /\ UNCHANGED instruments

\* Faulty variant of line 195: only successful calls are counted.
track_ai_agent_call_L195_success_only(t) ==
    /\ pc[t] = "L195"
    /\ ai_agent_calls_total' =
          IF frame[t].success
          THEN Inc(ai_agent_calls_total, <<frame[t].endpoint, "success">>)
          ELSE ai_agent_calls_total
    /\ Goto(t, "L196")
    /\ UNCHANGED others_ai_agent_calls

track_ai_agent_call_L195(t) ==
    /\ pc[t] = "L195"
    /\ ai_agent_calls_total' =
          Inc(ai_agent_calls_total,
              <<frame[t].endpoint, StatusOf(frame[t].success)>>)
    /\ Goto(t, "L196")
    /\ UNCHANGED others_ai_agent_calls

\* Faulty variant of line 196: only successful calls are timed.
track_ai_agent_call_L196_success_only(t) ==
    /\ pc[t] = "L196"
    /\ ai_agent_latency' =
          IF frame[t].success
          THEN LET children == HistogramLabels(ai_agent_latency,
                                   frame[t].endpoint, AIAgentLatencyBuckets)
               IN  [children EXCEPT ![frame[t].endpoint] =
                                        Observe(@, frame[t].duration)]
          ELSE ai_agent_latency
    /\ Return(t)
    /\ UNCHANGED others_ai_agent_latency

track_ai_agent_call_L196(t) ==
    /\ pc[t] = "L196"
    /\ ai_agent_latency' =
          LET children == HistogramLabels(ai_agent_latency, frame[t].endpoint,
                                          AIAgentLatencyBuckets)
          IN  [children EXCEPT ![frame[t].endpoint] =
                                   Observe(@, frame[t].duration)]
    /\ Return(t)
    /\ UNCHANGED others_ai_agent_latency

\* ----------------------------------------------------- track_match_score
others_match_scores ==
    <<resume_uploads_total, matching_requests_total, ai_agent_calls_total,
      ai_agent_latency, candidates_by_fit, user_logins_total,
      workflows_started_total, workflows_completed_total, workflow_in_progress>>

Call_track_match_score(t) ==
    /\ \E score \in Scores :
          Enter(t, [op |-> "track_match_score", score |-> score], "L200")
    /\ UNCHANGED instruments

track_match_score_L200(t) ==
    /\ pc[t] = "L200"
    /\ match_scores' = Observe(match_scores, frame[t].score)
    /\ Return(t)
    /\ UNCHANGED others_match_scores

\* ------------------------------------------------- update_fit_categories
others_candidates_by_fit ==
    <<resume_uploads_total, matching_requests_total, ai_agent_calls_total,
      ai_agent_latency, match_scores, user_logins_total,
      workflows_started_total, workflows_completed_total, workflow_in_progress>>

Call_update_fit_categories(t) ==
    /\ \E best_fit \in FitCounts, partial_fit \in FitCounts,
          not_fit \in FitCounts :
          Enter(t, [op |-> "update_fit_categories", best_fit |-> best_fit,
                    partial_fit |-> partial_fit, not_fit |-> not_fit], "L204")
    /\ UNCHANGED instruments

update_fit_categories_L204(t) ==
    /\ pc[t] = "L204"
    /\ candidates_by_fit' = Set(candidates_by_fit, "Best Fit", frame[t].best_fit)
    /\ Goto(t, "L205")
    /\ UNCHANGED others_candidates_by_fit

update_fit_categories_L205(t) ==
    /\ pc[t] = "L205"
    /\ candidates_by_fit' =
          Set(candidates_by_fit, "Partial Fit", frame[t].partial_fit)
    /\ Goto(t, "L206")
    /\ UNCHANGED others_candidates_by_fit

update_fit_categories_L206(t) ==
    /\ pc[t] = "L206"
    /\ candidates_by_fit' = Set(candidates_by_fit, "Not Fit", frame[t].not_fit)
    /\ Return(t)
    /\ UNCHANGED others_candidates_by_fit

\* ------------------------------------------------------ track_user_login
others_user_logins ==
    <<resume_uploads_total, matching_requests_total, ai_agent_calls_total,
      ai_agent_latency, match_scores, candidates_by_fit,
      workflows_started_total, workflows_completed_total, workflow_in_progress>>

Call_track_user_login(t) ==
    /\ \E success \in BOOLEAN :
          Enter(t, [op |-> "track_user_login", success |-> success], "L211")
    /\ UNCHANGED instruments

\* Faulty variant of line 211: an increment without the lock, which reads the
\* value, lets another thread in and writes the value read plus one, so that
\* of two overlapping increments one is lost.
track_user_login_L211_unlocked(t) ==
    /\ pc[t] = "L211"
    /\ user_logins_total' =
          IF \E u \in Threads \ {t} :
                /\ pc[u] = "L211"
                /\ frame[u].success = frame[t].success
          THEN Labels(user_logins_total, StatusOf(frame[t].success))
          ELSE Inc(user_logins_total, StatusOf(frame[t].success))
    /\ Return(t)
    /\ UNCHANGED others_user_logins

track_user_login_L211(t) ==
    /\ pc[t] = "L211"
    /\ user_logins_total' =
          Inc(user_logins_total, StatusOf(frame[t].success))
    /\ Return(t)
    /\ UNCHANGED others_user_logins

\* -------------------------------------------------------- track_workflow
others_workflows_started ==
    <<resume_uploads_total, matching_requests_total, ai_agent_calls_total,
      ai_agent_latency, match_scores, candidates_by_fit, user_logins_total,
      workflows_completed_total, workflow_in_progress>>

others_workflows_completed ==
    <<resume_uploads_total, matching_requests_total, ai_agent_calls_total,
      ai_agent_latency, match_scores, candidates_by_fit, user_logins_total,
      workflows_started_total, workflow_in_progress>>

others_workflow_in_progress ==
    <<resume_uploads_total, matching_requests_total, ai_agent_calls_total,
      ai_agent_latency, match_scores, candidates_by_fit, user_logins_total,
      workflows_started_total, workflows_completed_total>>

\* A caller that does not report a completion leaves status at its default,
\* one that does not report a start leaves workflow_type at its default.
Call_track_workflow(t) ==
    /\ \E started \in BOOLEAN, completed \in BOOLEAN :
       \E status \in (IF completed THEN WorkflowStatuses ELSE {"success"}),
          workflow_type \in (IF started THEN WorkflowTypes ELSE {"manual"}) :
          Enter(t, [op |-> "track_workflow", started |-> started,
                    completed |-> completed, status |-> status,
                    workflow_type |-> workflow_type], "L216")
    /\ UNCHANGED instruments

\* if started:
track_workflow_L216(t) ==
    /\ pc[t] = "L216"
    /\ Goto(t, IF frame[t].started THEN "L217" ELSE "L219")
    /\ UNCHANGED instruments

track_workflow_L217(t) ==
    /\ pc[t] = "L217"
    /\ workflows_started_total' =
          Inc(workflows_started_total, frame[t].workflow_type)
    /\ Goto(t, "L218")
    /\ UNCHANGED others_workflows_started

\* Faulty variant of line 218: the completed branch is an elif.
track_workflow_L218_elif(t) ==
    /\ pc[t] = "L218"
    /\ workflow_in_progress' = workflow_in_progress + 1
    /\ Return(t)
    /\ UNCHANGED others_workflow_in_progress

\* Faulty variant of line 218: the gauge is set to 1, not incremented.
track_workflow_L218_set(t) ==
    /\ pc[t] = "L218"
    /\ workflow_in_progress' = 1
    /\ Goto(t, "L219")
    /\ UNCHANGED others_workflow_in_progress

track_workflow_L218(t) ==
    /\ pc[t] = "L218"
    /\ workflow_in_progress' = workflow_in_progress + 1
    /\ Goto(t, "L219")
    /\ UNCHANGED others_workflow_in_progress

\* if completed:
track_workflow_L219(t) ==
    /\ pc[t] = "L219"
    /\ IF frame[t].completed THEN Goto(t, "L220") ELSE Return(t)
    /\ UNCHANGED instruments

track_workflow_L220(t) ==
    /\ pc[t] = "L220"
    /\ workflows_completed_total' =
          Inc(workflows_completed_total, frame[t].status)
    /\ Goto(t, "L221")
    /\ UNCHANGED others_workflows_completed

\* Faulty variant of line 221: the gauge is not decremented.
track_workflow_L221_no_dec(t) ==
    /\ pc[t] = "L221"
    /\ Return(t)
    /\ UNCHANGED instruments

track_workflow_L221(t) ==
    /\ pc[t] = "L221"
    /\ workflow_in_progress' = workflow_in_progress - 1
    /\ Return(t)
    /\ UNCHANGED others_workflow_in_progress

\* ------------------------------------------------------------ the process
\* The process is killed while thread t is between the two updates of
\* track_ai_agent_call; what the instruments held at that moment is what a
\* reader of them finds.  (A kill at any other moment is the behaviour
\* stopping in a state the process reaches anyway.)
Crash(t) ==
    /\ ~crashed
    /\ pc[t] = "L196"
    /\ crashed' = TRUE
    /\ UNCHANGED <<instruments, threads, pre>>

InFlight == {t \in Threads : pc[t] # "idle"}

\* Calls begun so far.
NumCalls == BagCardinality(returned) + Cardinality(InFlight)

Quiescent == InFlight = {}

\* The process is alive and its callers have begun fewer than max calls.
CanCall(max) == ~crashed /\ NumCalls < max

\* A step of a thread of the live process; callers are not serialized.
Concurrent == ~crashed /\ UNCHANGED <<crashed, pre>>

\* Any number of threads inside the helpers at once.
Next ==
    \E t \in Threads :
          \/ CanCall(MaxCallsAll) /\ Call_track_resume_upload(t) /\ Concurrent
          \/ CanCall(MaxCallsAll) /\ Call_track_matching_request(t) /\ Concurrent
          \/ CanCall(MaxCallsAll) /\ Call_track_ai_agent_call(t) /\ Concurrent
          \/ CanCall(MaxCallsAll) /\ Call_track_match_score(t) /\ Concurrent
          \/ CanCall(MaxCallsAll) /\ Call_update_fit_categories(t) /\ Concurrent
          \/ CanCall(MaxCallsAll) /\ Call_track_user_login(t) /\ Concurrent
          \/ CanCall(MaxCallsAll) /\ Call_track_workflow(t) /\ Concurrent
          \/ track_resume_upload_L185(t) /\ Concurrent
          \/ track_matching_request_L190(t) /\ Concurrent
          \/ track_ai_agent_call_L195(t) /\ Concurrent
          \/ track_ai_agent_call_L196(t) /\ Concurrent
          \/ track_match_score_L200(t) /\ Concurrent
          \/ update_fit_categories_L204(t) /\ Concurrent
          \/ update_fit_categories_L205(t) /\ Concurrent
          \/ update_fit_categories_L206(t) /\ Concurrent
          \/ track_user_login_L211(t) /\ Concurrent
          \/ track_workflow_L216(t) /\ Concurrent
          \/ track_workflow_L217(t) /\ Concurrent
          \/ track_workflow_L218(t) /\ Concurrent
          \/ track_workflow_L219(t) /\ Concurrent
          \/ track_workflow_L220(t) /\ Concurrent
          \/ track_workflow_L221(t) /\ Concurrent
          \/ Crash(t)

Spec == Init /\ [][Next]_vars

\* ------------------------------------------------ focused specifications
\* Concurrent callers of the helpers that make one increment.
NextCounters ==
    \E t \in Threads :
          \/ CanCall(MaxCalls) /\ Call_track_resume_upload(t) /\ Concurrent
          \/ CanCall(MaxCalls) /\ Call_track_matching_request(t) /\ Concurrent
          \/ CanCall(MaxCalls) /\ Call_track_user_login(t) /\ Concurrent
          \/ track_resume_upload_L185(t) /\ Concurrent
          \/ track_matching_request_L190(t) /\ Concurrent
          \/ track_user_login_L211(t) /\ Concurrent

SpecCounters == Init /\ [][NextCounters]_vars

\* Concurrent callers of track_ai_agent_call, in a process that may be killed.
NextAIAgent ==
    \E t \in Threads :
          \/ CanCall(MaxCalls) /\ Call_track_ai_agent_call(t) /\ Concurrent
          \/ track_ai_agent_call_L195(t) /\ Concurrent
          \/ track_ai_agent_call_L196(t) /\ Concurrent
          \/ Crash(t)

SpecAIAgent == Init /\ [][NextAIAgent]_vars

\* Concurrent callers of track_workflow.
NextWorkflow ==
    \E t \in Threads :
          \/ CanCall(MaxCalls) /\ Call_track_workflow(t) /\ Concurrent
          \/ track_workflow_L216(t) /\ Concurrent
          \/ track_workflow_L217(t) /\ Concurrent
          \/ track_workflow_L218(t) /\ Concurrent
          \/ track_workflow_L219(t) /\ Concurrent
          \/ track_workflow_L220(t) /\ Concurrent
          \/ track_workflow_L221(t) /\ Concurrent

SpecWorkflow == Init /\ [][NextWorkflow]_vars

\* Serialized callers: a call begins only when no other call is running,
\* and the instruments are noted as it begins.
CanCallSerial == ~crashed /\ Quiescent /\ NumCalls < MaxSeqCalls

Baseline(t) ==
    /\ pre' = [call |-> frame'[t], instruments |-> Snapshot]
    /\ UNCHANGED crashed

NextSerial ==
    \E t \in Threads :
          \/ CanCallSerial /\ Call_update_fit_categories(t) /\ Baseline(t)
          \/ CanCallSerial /\ Call_track_workflow(t) /\ Baseline(t)
          \/ update_fit_categories_L204(t) /\ Concurrent
          \/ update_fit_categories_L205(t) /\ Concurrent
          \/ update_fit_categories_L206(t) /\ Concurrent
          \/ track_workflow_L216(t) /\ Concurrent
          \/ track_workflow_L217(t) /\ Concurrent
          \/ track_workflow_L218(t) /\ Concurrent
          \/ track_workflow_L219(t) /\ Concurrent
          \/ track_workflow_L220(t) /\ Concurrent
          \/ track_workflow_L221(t) /\ Concurrent

SpecSerial == Init /\ [][NextSerial]_vars

\* ---------------------------------------------------------------- claims
\* The distinct calls of helper op that have returned.
Returned(op) == {c \in DOMAIN returned : c.op = op}

\* How many returned calls the distinct calls in `calls` stand for.
ReturnedCount(calls) == SumOver(returned, calls)

\* The threads inside track_ai_agent_call for endpoint e that have made the
\* first update (line 195) and not the second (line 196).
BetweenUpdates(e) ==
    {t \in Threads : pc[t] = "L196" /\ frame[t].endpoint = e}

AIAgentCallCount(e) ==
    Value(ai_agent_calls_total, <<e, "success">>)
        + Value(ai_agent_calls_total, <<e, "failed">>)

AIAgentLatencyCount(e) ==
    IF e \in DOMAIN ai_agent_latency THEN Count(ai_agent_latency[e]) ELSE 0

\* C1: counter completeness.  From the empty ResumeUploads counter, after N
\* completed track_resume_upload calls the series with status 'success' and
\* 'failed' sum to N, and no series has any other status.
C1_CounterCompleteness ==
    LET documented == {k \in DOMAIN resume_uploads_total :
                          k[1] \in {"success", "failed"}}
    IN  /\ DOMAIN resume_uploads_total = documented
        /\ SumOver(resume_uploads_total, documented)
              = ReturnedCount(Returned("track_resume_upload"))

C1_Witness ==
    /\ ReturnedCount(Returned("track_resume_upload")) = 3
    /\ Value(resume_uploads_total, <<"success", "pdf">>) = 2
    /\ Value(resume_uploads_total, <<"failed", "docx">>) = 1

\* C2: no lost updates.  Whatever the interleaving of the callers,
\* UserLogins{status='success'} is the number of track_user_login(True)
\* calls that have finished.
C2_NoLostLogins ==
    Value(user_logins_total, "success")
        = ReturnedCount({c \in Returned("track_user_login") : c.success})

\* Two callers are inside track_user_login(True) at once, after a first
\* login was counted.
C2_Witness ==
    /\ \A t \in Threads : pc[t] = "L211" /\ frame[t].success
    /\ Value(user_logins_total, "success") = 1

\* C3: start/complete pairing.  Once the calls have returned, every call
\* with started=True has raised WorkflowsStarted{type} by 1 and
\* WorkflowsInProgress by 1 and every call with completed=True has raised
\* WorkflowsCompleted{status} by 1 and lowered WorkflowsInProgress by 1: the
\* gauge is the starts minus the completions, its initial value after
\* matched pairs.
C3_StartCompletePairing ==
    LET Started == {c \in Returned("track_workflow") : c.started}
        Completed == {c \in Returned("track_workflow") : c.completed}
    IN  Quiescent =>
          /\ \A type \in WorkflowTypes :
                Value(workflows_started_total, type)
                    = ReturnedCount({c \in Started : c.workflow_type = type})
          /\ \A status \in WorkflowStatuses :
                Value(workflows_completed_total, status)
                    = ReturnedCount({c \in Completed : c.status = status})
          /\ workflow_in_progress
                = ReturnedCount(Started) - ReturnedCount(Completed)
          /\ (ReturnedCount(Started) = ReturnedCount(Completed)
                => workflow_in_progress = 0)

\* One start and its completion, made by two calls, have returned.
C3_Witness ==
    LET StartOnly == {c \in Returned("track_workflow") :
                         c.started /\ ~c.completed}
        CompleteOnly == {c \in Returned("track_workflow") :
                            ~c.started /\ c.completed}
    IN  /\ Quiescent
        /\ ReturnedCount(StartOnly) = 1
        /\ ReturnedCount(CompleteOnly) = 1
        /\ BagCardinality(returned) = 2
        /\ Value(workflows_started_total, "scheduled") = 1
        /\ Value(workflows_completed_total, "partial") = 1
        /\ workflow_in_progress = 0

\* C4: count and latency go together.  For every endpoint with no call
\* between its two updates, AIAgentCalls over 'success' and 'failed' equals
\* the observations in AIAgentLatency, and both equal the calls returned.
C4_CountAndLatencyTogether ==
    \A e \in Endpoints :
       LET calls == {c \in Returned("track_ai_agent_call") : c.endpoint = e}
       IN  BetweenUpdates(e) = {} =>
             /\ AIAgentCallCount(e) = AIAgentLatencyCount(e)
             /\ AIAgentCallCount(e) = ReturnedCount(calls)
             /\ \A k \in DOMAIN ai_agent_calls_total :
                   k[2] \in {"success", "failed"}

\* A successful and a failed call for the same endpoint have returned.
C4_Witness ==
    /\ Quiescent
    /\ Value(ai_agent_calls_total, <<"compare-batch", "success">>) = 1
    /\ Value(ai_agent_calls_total, <<"compare-batch", "failed">>) = 1
    /\ AIAgentLatencyCount("compare-batch") = 2

\* C5: update_fit_categories overwrites.  After a call (b, p, n) has
\* returned, with no other call running meanwhile, the three gauges are b, p
\* and n whatever they were before.
C5_FitOverwrite ==
    (Quiescent /\ pre.call.op = "update_fit_categories") =>
        candidates_by_fit =
            ("Best Fit" :> pre.call.best_fit)
                @@ ("Partial Fit" :> pre.call.partial_fit)
                @@ ("Not Fit" :> pre.call.not_fit)

\* A call (0, 0, 0) has returned that began with the gauges at (3, 3, 3).
C5_Witness ==
    /\ Quiescent
    /\ pre.call.op = "update_fit_categories"
    /\ pre.call.best_fit = 0 /\ pre.call.partial_fit = 0 /\ pre.call.not_fit = 0
    /\ DOMAIN pre.instruments.candidates_by_fit
          = {"Best Fit", "Partial Fit", "Not Fit"}
    /\ \A k \in DOMAIN pre.instruments.candidates_by_fit :
          pre.instruments.candidates_by_fit[k] = 3
    /\ \A k \in DOMAIN candidates_by_fit : candidates_by_fit[k] = 0

Counters ==
    <<resume_uploads_total, matching_requests_total, ai_agent_calls_total,
      user_logins_total, workflows_started_total, workflows_completed_total>>

\* The counter series of this state are there, no lower, in the next state.
NoCounterLowered ==
    \A i \in 1..Len(Counters) :
       \A k \in DOMAIN Counters[i] :
          /\ k \in DOMAIN Counters'[i]
          /\ Counters'[i][k] >= Counters[i][k]

\* C6: every counter series is monotonically non-decreasing: no step of any
\* helper, in any interleaving, lowers one.
C6_CountersMonotonic == [][NoCounterLowered]_vars

\* A counter series has been raised twice while the gauge went below zero.
C6_Witness ==
    /\ Value(workflows_completed_total, "failed") = 2
    /\ workflow_in_progress = -2

\* C7: in every state, a crash included, the call count of an endpoint minus
\* its latency observations is at least 0 and at most the number of calls
\* for that endpoint between their two updates.
C7_AtMostOneSamplePerCall ==
    \A e \in Endpoints :
       /\ AIAgentCallCount(e) - AIAgentLatencyCount(e) >= 0
       /\ AIAgentCallCount(e) - AIAgentLatencyCount(e)
             <= Cardinality(BetweenUpdates(e))

\* The process was killed with one call between its two updates: its
\* endpoint has one count more than it has observations.
C7_Witness ==
    /\ crashed
    /\ Cardinality(BetweenUpdates("extract-resume")) = 1
    /\ AIAgentCallCount("extract-resume") = 2
    /\ AIAgentLatencyCount("extract-resume") = 1

\* The step in which thread t executes line 200 with a score above the
\* highest declared boundary.
ObservesAboveRange(t) ==
    /\ pc[t] = "L200"
    /\ pc'[t] = "idle"
    /\ frame[t].score > MatchScoresBuckets[Len(MatchScoresBuckets)]

OverflowBucket == Len(MatchScoresBuckets) + 1

BoundariesKept ==
    /\ match_scores'.upper_bounds = MatchScoresBuckets
    /\ \A e \in DOMAIN ai_agent_latency' :
          ai_agent_latency'[e].upper_bounds = AIAgentLatencyBuckets
    /\ \A t \in Threads :
          ObservesAboveRange(t) =>
             /\ match_scores'.buckets[OverflowBucket]
                   = match_scores.buckets[OverflowBucket] + 1
             /\ Count(match_scores') = Count(match_scores) + 1
             /\ BagCardinality(returned') = BagCardinality(returned) + 1

\* C8: no step changes the bucket boundaries of a histogram, and
\* track_match_score of a score above 100 returns having raised the overflow
\* bucket and the observation count by one.
C8_BoundariesFixedOverflowCounted == [][BoundariesKept]_vars

C8_Witness ==
    LET AboveRange == {c \in Returned("track_match_score") : c.score = 101}
    IN  /\ ReturnedCount(AboveRange) = 2
        /\ match_scores.buckets[OverflowBucket] = 2
        /\ match_scores.upper_bounds = MatchScoresBuckets

\* C9: a track_workflow call with both flags set, once it has returned (no
\* other call running meanwhile), has raised WorkflowsStarted{type} and
\* WorkflowsCompleted{status} by 1 and left WorkflowsInProgress as it was; a
\* call with neither flag has changed no instrument.
C9_InstantWorkflow ==
    (Quiescent /\ pre.call.op = "track_workflow") =>
        /\ (pre.call.started /\ pre.call.completed) =>
              /\ Value(workflows_started_total, pre.call.workflow_type)
                    = Value(pre.instruments.workflows_started_total,
                            pre.call.workflow_type) + 1
              /\ Value(workflows_completed_total, pre.call.status)
                    = Value(pre.instruments.workflows_completed_total,
                            pre.call.status) + 1
              /\ workflow_in_progress = pre.instruments.workflow_in_progress
        /\ (~pre.call.started /\ ~pre.call.completed) =>
              Snapshot = pre.instruments

\* A call with both flags has returned that began with a workflow in
\* progress and its series already at 1.
C9_Witness ==
    /\ Quiescent
    /\ pre.call.op = "track_workflow"
    /\ pre.call.started /\ pre.call.completed
    /\ pre.instruments.workflow_in_progress = 1
    /\ Value(pre.instruments.workflows_started_total,
             pre.call.workflow_type) = 1
    /\ workflow_in_progress = 1

\* C10: workflow accounting.  Whenever no track_workflow call is running,
\* WorkflowsInProgress is the sum of WorkflowsStarted minus the sum of
\* WorkflowsCompleted; nothing keeps it at or above zero, nothing requires a
\* start before a completion.
C10_WorkflowAccounting ==
    (\A t \in Threads : frame[t].op # "track_workflow") =>
        workflow_in_progress
            = Total(workflows_started_total) - Total(workflows_completed_total)

\* Completions without a start have returned: the gauge is below zero.
C10_Witness ==
    /\ Quiescent
    /\ Total(workflows_started_total) = 0
    /\ Total(workflows_completed_total) = 2
    /\ workflow_in_progress = -2

=============================================================================
